---- MODULE Spec2Model ----
(***************************************************************************)
(* A model of hajime-milk.py: the naming rule fix_payload_name, one        *)
(* retrieval hajime_get (download, parse, name, place) over a file system, *)
(* and the one-shot driver do_one with its follow expansion.               *)
(*                                                                         *)
(* Text is modelled as sequences of one-character strings, so that         *)
(* split('.'), '.'.join, int() and '%s' formatting are computed and not    *)
(* assumed.                                                                *)
(***************************************************************************)
EXTENDS Integers, Sequences, FiniteSets, TLC

(* ------------------------------------------------------------------ *)
(* Bounds of the model                                                  *)
(* ------------------------------------------------------------------ *)

\* longest generated payload name in the naming specification
MaxNameLen == 4
\* largest creation time the parse collaborator reports in the naming specification
MaxTime == 11
\* hajime_get calls over the life of the output directory
MaxCalls == 3

(* ------------------------------------------------------------------ *)
(* Text                                                                 *)
(* ------------------------------------------------------------------ *)

DigitChars == <<"0", "1", "2", "3", "4", "5", "6", "7", "8", "9">>

IsDigit(c) == \E i \in 1..10 : DigitChars[i] = c

DigitVal(c) == (CHOOSE i \in 1..10 : DigitChars[i] = c) - 1

\* str.lower() on the letters the model uses
LowerChar(c) ==
    CASE c = "A" -> "a"
      [] c = "L" -> "l"
      [] c = "M" -> "m"
      [] c = "O" -> "o"
      [] c = "D" -> "d"
      [] c = "U" -> "u"
      [] c = "E" -> "e"
      [] c = "S" -> "s"
      [] OTHER -> c

Lower(s) == [i \in 1..Len(s) |-> LowerChar(s[i])]

\* str.strip(): leading and trailing white space removed
RECURSIVE LStrip(_)
LStrip(s) == IF s # <<>> /\ Head(s) = " " THEN LStrip(Tail(s)) ELSE s

RECURSIVE RStrip(_)
RStrip(s) ==
    IF s # <<>> /\ s[Len(s)] = " " THEN RStrip(SubSeq(s, 1, Len(s) - 1)) ELSE s

Strip(s) == RStrip(LStrip(s))

\* str.split('.'): the components between the dots, one more than the dots
RECURSIVE Split(_, _)
Split(s, sep) ==
    IF \A i \in 1..Len(s) : s[i] # sep
    THEN <<s>>
    ELSE LET i == CHOOSE k \in 1..Len(s) :
                      s[k] = sep /\ \A j \in 1..(k - 1) : s[j] # sep
         IN <<SubSeq(s, 1, i - 1)>> \o Split(SubSeq(s, i + 1, Len(s)), sep)

\* sep.join(list)
RECURSIVE Join(_, _)
Join(co, sep) ==
    IF co = <<>> THEN <<>>
    ELSE IF Len(co) = 1 THEN co[1]
    ELSE co[1] \o <<sep>> \o Join(Tail(co), sep)

\* the digits of a string of digits, as a number
RECURSIVE DigitsVal(_)
DigitsVal(s) ==
    IF s = <<>> THEN 0
    ELSE 10 * DigitsVal(SubSeq(s, 1, Len(s) - 1)) + DigitVal(s[Len(s)])

AllDigits(s) == s # <<>> /\ \A i \in 1..Len(s) : IsDigit(s[i])

\* int(s) of Python 2: white space stripped, an optional sign, then digits;
\* anything else raises ValueError
IntBody(s) ==
    LET t == Strip(s)
    IN IF t # <<>> /\ t[1] \in {"-", "+"} THEN Tail(t) ELSE t

IntRaises(s) == ~AllDigits(IntBody(s))

IntOf(s) ==
    LET t == Strip(s)
    IN IF t # <<>> /\ t[1] = "-" THEN 0 - DigitsVal(IntBody(s))
       ELSE DigitsVal(IntBody(s))

\* '%s' % n for an integer n
RECURSIVE NatStr(_)
NatStr(n) ==
    IF n < 10 THEN <<DigitChars[n + 1]>>
    ELSE NatStr(n \div 10) \o <<DigitChars[(n % 10) + 1]>>

Str(n) == IF n < 0 THEN <<"-">> \o NatStr(0 - n) ELSE NatStr(n)

\* whether sub occurs in s (Python's "sub in s")
Contains(s, sub) ==
    \E i \in 0..(Len(s) - Len(sub)) : SubSeq(s, i + 1, i + Len(sub)) = sub

(* ------------------------------------------------------------------ *)
(* fix_payload_name                                                     *)
(* ------------------------------------------------------------------ *)

config == <<"c", "o", "n", "f", "i", "g">>

\* the suffix of the decoded file's name ('%s.file')
FileSuffix == <<".", "f", "i", "l", "e">>

\* int(co[-1]) raises ValueError
fix_payload_name_raises(pn) ==
    /\ pn # config
    /\ LET co == Split(pn, ".") IN IntRaises(co[Len(co)])

\* a variant that leaves hidden-style names as they are
HiddenPrefix_None(co) == <<>>

\* the hidden-file prefix of a name whose first component is empty
HiddenPrefix(co) == IF co[1] = <<>> THEN <<"_", "_">> ELSE <<>>

\* a variant that never corrects the timestamp of a name
fix_payload_name_NoRename(pn, ct) ==
    IF pn = config
    THEN pn \o <<".">> \o Str(ct)
    ELSE HiddenPrefix(Split(pn, ".")) \o pn

\* a variant that keeps the requested timestamp in front of the true one
fix_payload_name_KeepsLast(pn, ct) ==
    IF pn = config
    THEN pn \o <<".">> \o Str(ct)
    ELSE LET co     == Split(pn, ".")
             prefix == HiddenPrefix(co)
         IN IF IntOf(co[Len(co)]) # ct
            THEN prefix \o Join(co, ".") \o <<".">> \o Str(ct)
            ELSE prefix \o pn

\* a variant that compares the last component with the time as text
fix_payload_name_TextCompare(pn, ct) ==
    IF pn = config
    THEN pn \o <<".">> \o Str(ct)
    ELSE LET co     == Split(pn, ".")
             prefix == HiddenPrefix(co)
         IN IF co[Len(co)] # Str(ct)
            THEN prefix \o Join(SubSeq(co, 1, Len(co) - 1), ".") \o <<".">> \o Str(ct)
            ELSE prefix \o pn

\* a variant that treats config like any other name without a timestamp
fix_payload_name_ConfigAsIs(pn, ct) ==
    IF pn = config
    THEN pn
    ELSE LET co     == Split(pn, ".")
             prefix == HiddenPrefix(co)
         IN IF IntOf(co[Len(co)]) # ct
            THEN prefix \o Join(SubSeq(co, 1, Len(co) - 1), ".") \o <<".">> \o Str(ct)
            ELSE prefix \o pn

fix_payload_name(pn, ct) ==
    IF pn = config
    THEN pn \o <<".">> \o Str(ct)
    ELSE LET co     == Split(pn, ".")
             prefix == HiddenPrefix(co)
         IN IF IntOf(co[Len(co)]) # ct
            THEN prefix \o Join(SubSeq(co, 1, Len(co) - 1), ".") \o <<".">> \o Str(ct)
            ELSE prefix \o pn

(* ------------------------------------------------------------------ *)
(* get_config_module_entries                                            *)
(* ------------------------------------------------------------------ *)

WordChars ==
    {"a", "b", "c", "d", "e", "f", "g", "h", "i", "j", "k", "l", "m", "n", "o",
     "p", "q", "r", "s", "t", "u", "v", "w", "x", "y", "z",
     "A", "D", "E", "L", "M", "O", "S", "U", "_",
     "0", "1", "2", "3", "4", "5", "6", "7", "8", "9"}

\* how many word characters follow position i of the line
RECURSIVE WordRun(_, _)
WordRun(line, i) ==
    IF i <= Len(line) /\ line[i] \in WordChars THEN 1 + WordRun(line, i + 1) ELSE 0

\* re.match('\[\w+\]', line): a bracketed word at the start of the line
MatchesSection(line) ==
    /\ Len(line) >= 3
    /\ line[1] = "["
    /\ LET n == WordRun(line, 2)
       IN n >= 1 /\ Len(line) >= n + 2 /\ line[n + 2] = "]"

ModulesHeader == <<"[", "m", "o", "d", "u", "l", "e", "s", "]">>

\* the loop over the lines, from line i on
RECURSIVE ModuleEntriesFrom(_, _, _, _)
ModuleEntriesFrom(lines, i, in_modules, mods) ==
    IF i > Len(lines) THEN mods
    ELSE LET line == Strip(lines[i])
         IN IF Lower(line) = ModulesHeader
            THEN ModuleEntriesFrom(lines, i + 1, TRUE, mods)
            ELSE IF in_modules
            THEN IF ~MatchesSection(line)
                 THEN ModuleEntriesFrom(lines, i + 1, TRUE, Append(mods, line))
                 ELSE ModuleEntriesFrom(lines, i + 1, FALSE, mods)
            ELSE ModuleEntriesFrom(lines, i + 1, in_modules, mods)

get_config_module_entries(lines) == ModuleEntriesFrom(lines, 1, FALSE, <<>>)

(* ------------------------------------------------------------------ *)
(* The inputs of the model                                              *)
(* ------------------------------------------------------------------ *)

atk == <<"a", "t", "k">>
arm5 == <<"a", "r", "m", "5">>
mipsel == <<"m", "i", "p", "s", "e", "l">>
all == <<"a", "l", "l">>

\* atk.arm5.1
atk_arm5_1 == atk \o <<".">> \o arm5 \o <<".", "1">>
\* .i.arm5.1, a hidden-style name
i_arm5_1 == <<".", "i", ".">> \o arm5 \o <<".", "1">>
\* .i.mipsel.1
i_mipsel_1 == <<".", "i", ".">> \o mipsel \o <<".", "1">>
\* atk.arm5. : the request the bots serve whatever its timestamp (USAGE), here
\* with none
atk_arm5_ == atk \o <<".">> \o arm5 \o <<".">>

\* PAYLOAD_NAME of the command line
ReqNames == {config, atk_arm5_1, i_arm5_1, atk_arm5_}

\* ARCH of --follow
FollowArchs == {all, arm5}

\* IP PORT of the command line
Peers == {"10.0.0.1 1457"}

\* decoded config files a bot may serve, as lines
ConfigTexts ==
    << \* no [modules] section
       << <<"[", "p", "e", "e", "r", "s", "]">>, atk_arm5_1 >>,
       \* two module entries, then another section
       << <<"[", "M", "o", "d", "u", "l", "e", "s", "]">>, atk_arm5_1, i_mipsel_1,
          <<"[", "p", "e", "e", "r", "s", "]">>, i_arm5_1 >>,
       \* an entry without a timestamp first
       << <<"[", "m", "o", "d", "u", "l", "e", "s", "]">>, atk_arm5_, atk_arm5_1 >>,
       \* an entry named config
       << <<"[", "m", "o", "d", "u", "l", "e", "s", "]">>, config >> >>

\* the texts a payload requested as pn may decode to: only a config is read back
TextsOf(pn) ==
    IF pn = config THEN {ConfigTexts[i] : i \in DOMAIN ConfigTexts} ELSE {ConfigTexts[1]}

\* creation times the parse collaborator reports: <<>> is None
CTimes == {<<>>, <<0>>, <<1>>, <<2>>}

(* ------------------------------------------------------------------ *)
(* State                                                                *)
(* ------------------------------------------------------------------ *)

VARIABLES
    \* do_one: its arguments, its position, its module list and loop index
    ip, pname, keep, follow, arch, dpc, status, modules, mi,
    \* how the process ended: its exit status, and the (ip, name) of every
    \* hajime_get call it made (of do_watch: in the scan at hand)
    exit_status, attempts,
    \* hajime_get: its position, arguments and locals
    gpc, g_ip, g_pname, tmp, download, ctime, text, fixed_pname, ret,
    \* the last diagnostic hajime_get wrote to sys.stderr
    stderr,
    \* the file system: the output directory (path -> data), the temporary
    \* files /tmp/hajime-payload<n> and /tmp/hajime-payload<n>.file that exist
    files, tmp_pnames, tmp_fnames,
    \* hajime_get calls so far
    ncalls,
    \* do_watch: its position, the index of keyword in keywords, its
    \* arguments, the file it tails, the clock (time.time()), what the tailing
    \* command gave and the index of line in it, and the seconds its latest
    \* step slept
    wpc, ki, watch_lines, watch_path, watch_period, watch_file, now, tail, li, nap

vars == <<ip, pname, keep, follow, arch, dpc, status, modules, mi, exit_status,
          attempts, gpc, g_ip, g_pname, tmp, download, ctime, text, fixed_pname, ret,
          stderr, files, tmp_pnames, tmp_fnames, ncalls,
          wpc, ki, watch_lines, watch_path, watch_period, watch_file, now, tail, li, nap>>

watch_vars == <<wpc, ki, watch_lines, watch_path, watch_period, watch_file, now, tail,
                li, nap>>

one_vars == <<ip, pname, keep, follow, arch, dpc, status, modules, mi, exit_status>>
get_vars == <<gpc, g_ip, g_pname, tmp, download, ctime, text, fixed_pname, ret, stderr>>
fs_vars == <<files, tmp_pnames, tmp_fnames>>

\* an empty directory
NoFiles == [p \in {} |-> 0]

NoRet == [status |-> FALSE, final_pname |-> <<>>, final_fname |-> <<>>]

\* no tailing command has run
NoTail == [raised |-> FALSE, output |-> <<>>]

\* the program runs without --watch
WatchOff ==
    /\ wpc = "off" /\ ki = 0 /\ watch_lines = 0 /\ watch_path = <<>> /\ watch_period = 0
    /\ watch_file = <<>> /\ now = 0 /\ tail = NoTail /\ li = 0 /\ nap = 0

\* '%s.file' % final_pname
final_pname == fixed_pname
final_fname == final_pname \o FileSuffix

Init ==
    /\ ip = "" /\ pname = <<>> /\ keep = FALSE /\ follow = FALSE /\ arch = <<>>
    /\ dpc = "idle" /\ status = <<>> /\ modules = <<>> /\ mi = 0
    /\ exit_status = -1 /\ attempts = <<>>
    /\ gpc = "none" /\ g_ip = "" /\ g_pname = <<>> /\ tmp = 0
    /\ download = <<>> /\ ctime = <<>> /\ text = <<>> /\ fixed_pname = <<>>
    /\ ret = NoRet /\ stderr = ""
    /\ files = NoFiles /\ tmp_pnames = {} /\ tmp_fnames = {}
    /\ ncalls = 0
    /\ WatchOff

(* ------------------------------------------------------------------ *)
(* hajime_get                                                           *)
(* ------------------------------------------------------------------ *)

\* the file a path holds after a write of data d
Put(fs, path, d) == [q \in DOMAIN fs \cup {path} |-> IF q = path THEN d ELSE fs[q]]

\* a variant that leaves the temporary file in place
Unlink_Forgotten(names, n) == names

\* os.unlink of the temporary file n, where it exists
Unlink(names, n) == names \ {n}

\* what this call downloaded and decoded
RawData == [call |-> tmp, kind |-> "payload", text |-> text]
DecodedData == [call |-> tmp, kind |-> "file", text |-> text]

\* the entry of hajime_get, to tempfile.mkstemp: a new, empty temporary file
\* whose name no earlier call used; att is the caller's list of calls so far
CallGet(att, ipv, pn) ==
    /\ ncalls < MaxCalls
    /\ ncalls' = ncalls + 1
    /\ tmp' = ncalls + 1
    /\ tmp_pnames' = tmp_pnames \cup {ncalls + 1}
    /\ gpc' = "getfile" /\ g_ip' = ipv /\ g_pname' = pn
    /\ download' = <<>> /\ ctime' = <<>> /\ text' = <<>> /\ fixed_pname' = <<>>
    /\ ret' = NoRet
    /\ stderr' = ""
    /\ attempts' = Append(att, <<ipv, pn>>)
    /\ UNCHANGED <<files, tmp_fnames>>

\* a variant that takes an empty download for a payload
DownloadFailed_SizeIgnored(ok, size) == ok = FALSE

\* "status is False or os.path.getsize(tmp_pname) == 0"
DownloadFailed(ok, size) == ok = FALSE \/ size = 0

\* hajime_getfile and the test of its result: the collaborator reports
\* success or not and leaves the temporary file empty or not; download is
\* (status, size of the temporary file)
GetFile ==
    /\ gpc = "getfile"
    /\ \E ok \in BOOLEAN, size \in {0, 1} :
          /\ download' = <<ok, size>>
          /\ IF DownloadFailed(ok, size)
             THEN /\ stderr' = "could not download"
                  /\ tmp_pnames' = Unlink(tmp_pnames, tmp)
                  /\ gpc' = "returned" /\ ret' = NoRet
             ELSE /\ gpc' = "parse"
                  /\ UNCHANGED <<tmp_pnames, ret, stderr>>
    /\ UNCHANGED <<one_vars, watch_vars, attempts, g_ip, g_pname, tmp, ctime, text, fixed_pname,
                   files, tmp_fnames, ncalls>>

\* "not ctime": None, and 0 as well
NotCtime(ct) == ct = <<>> \/ ct[1] = 0

\* hajime_parse_payload and the test of its result. The collaborator writes
\* its output file and reports a creation time or none (hajime_get unlinks
\* the output file after a failed parse without testing for it).
ParsePayload ==
    /\ gpc = "parse"
    /\ \E ct \in CTimes, tx \in TextsOf(g_pname) :
          /\ ctime' = ct
          /\ IF NotCtime(ct)
             THEN /\ stderr' = "could not parse"
                  /\ tmp_pnames' = Unlink(tmp_pnames, tmp)
                  /\ tmp_fnames' = Unlink(tmp_fnames \cup {tmp}, tmp)
                  /\ gpc' = "returned" /\ ret' = NoRet
                  /\ UNCHANGED text
             ELSE /\ tmp_fnames' = tmp_fnames \cup {tmp}
                  /\ text' = tx
                  /\ gpc' = "fix"
                  /\ UNCHANGED <<tmp_pnames, ret, stderr>>
    /\ UNCHANGED <<one_vars, watch_vars, attempts, g_ip, g_pname, tmp, download, fixed_pname,
                   files, ncalls>>

\* fixed_pname = fix_payload_name(pname, ctime), or its ValueError
FixName ==
    /\ gpc = "fix"
    /\ IF fix_payload_name_raises(g_pname)
       THEN gpc' = "raised" /\ UNCHANGED fixed_pname
       ELSE gpc' = "place_pname" /\ fixed_pname' = fix_payload_name(g_pname, ctime[1])
    /\ UNCHANGED <<one_vars, watch_vars, attempts, g_ip, g_pname, tmp, download, ctime, text, ret,
                   stderr, fs_vars, ncalls>>

\* a variant that overwrites whatever --keep says
MayPlace_Always(path) == TRUE

\* a variant that never replaces an existing file
MayPlace_IfAbsent(path) == path \notin DOMAIN files

\* a variant that honours --keep for the payload only
MayPlace_KeepPayloadOnly(path) ==
    \/ path \notin DOMAIN files
    \/ ~keep
    \/ (Len(path) > Len(FileSuffix)
          /\ SubSeq(path, Len(path) - Len(FileSuffix) + 1, Len(path)) = FileSuffix)

\* "not os.path.exists(path) or not keep"
MayPlace(path) == path \notin DOMAIN files \/ ~keep

\* the payload: os.rename onto final_pname, or os.unlink of the temporary file
PlacePname ==
    /\ gpc = "place_pname"
    /\ IF MayPlace(final_pname)
       THEN files' = Put(files, final_pname, RawData) /\ UNCHANGED stderr
       ELSE stderr' = "already exists; not overwriting" /\ UNCHANGED files
    /\ tmp_pnames' = Unlink(tmp_pnames, tmp)
    /\ gpc' = "place_fname"
    /\ UNCHANGED <<one_vars, watch_vars, attempts, g_ip, g_pname, tmp, download, ctime, text,
                   fixed_pname, ret, tmp_fnames, ncalls>>

\* the decoded file: os.rename onto final_fname, or os.unlink; then the return
PlaceFname ==
    /\ gpc = "place_fname"
    /\ IF MayPlace(final_fname)
       THEN files' = Put(files, final_fname, DecodedData) /\ UNCHANGED stderr
       ELSE stderr' = "already exists; not overwriting" /\ UNCHANGED files
    /\ tmp_fnames' = Unlink(tmp_fnames, tmp)
    /\ gpc' = "returned"
    /\ ret' = [status |-> TRUE, final_pname |-> final_pname, final_fname |-> final_fname]
    /\ UNCHANGED <<one_vars, watch_vars, attempts, g_ip, g_pname, tmp, download, ctime, text,
                   fixed_pname, tmp_pnames, ncalls>>

hajime_get == GetFile \/ ParsePayload \/ FixName \/ PlacePname \/ PlaceFname

(* ------------------------------------------------------------------ *)
(* do_one                                                               *)
(* ------------------------------------------------------------------ *)

\* the command lines of a one-shot run: follow is set by -f ARCH
OneArgs ==
    { [ip |-> i, pname |-> pn, keep |-> k, follow |-> FALSE, arch |-> <<>>] :
        i \in Peers, pn \in ReqNames, k \in BOOLEAN }
    \cup
    { [ip |-> i, pname |-> pn, keep |-> k, follow |-> TRUE, arch |-> a] :
        i \in Peers, pn \in {config, atk_arm5_1}, k \in BOOLEAN, a \in FollowArchs }

\* "(arch.lower() != 'all') and (arch not in module)": the entry is skipped
Skipped(module) == Lower(arch) # all /\ ~Contains(module, arch)

\* a run of the program starts: do_one calls hajime_get for pname
DoOne ==
    /\ dpc \in {"idle", "exited"}
    /\ \E a \in OneArgs :
          /\ ip' = a.ip /\ pname' = a.pname /\ keep' = a.keep
          /\ follow' = a.follow /\ arch' = a.arch
          /\ CallGet(<<>>, a.ip, a.pname)
    /\ dpc' = "get" /\ status' = <<>> /\ modules' = <<>> /\ mi' = 0
    /\ exit_status' = -1
    /\ UNCHANGED watch_vars

\* the top-level hajime_get returned: sys.exit(1), or the module list, or
\* sys.exit(0)
OneReturned ==
    /\ dpc = "get" /\ gpc = "returned"
    /\ IF ~ret.status
       THEN dpc' = "exited" /\ exit_status' = 1 /\ UNCHANGED <<modules, mi>>
       ELSE IF pname = config /\ follow
       THEN /\ modules' = get_config_module_entries(files[ret.final_fname].text)
            /\ mi' = 1 /\ dpc' = "follow" /\ UNCHANGED exit_status
       ELSE dpc' = "exited" /\ exit_status' = 0 /\ UNCHANGED <<modules, mi>>
    /\ status' = <<ret.status>>
    /\ gpc' = "none"
    /\ UNCHANGED <<ip, pname, keep, follow, arch, attempts, g_ip, g_pname, tmp,
                   download, ctime, text, fixed_pname, ret, stderr, fs_vars, ncalls,
                   watch_vars>>

\* one turn of "for module in modules", to the call of hajime_get; after the
\* last entry, sys.exit(0)
FollowNext ==
    /\ dpc = "follow" /\ gpc = "none"
    /\ IF mi > Len(modules)
       THEN /\ dpc' = "exited" /\ exit_status' = 0
            /\ UNCHANGED <<mi, attempts, get_vars, fs_vars, ncalls>>
       ELSE IF Skipped(modules[mi])
       THEN /\ mi' = mi + 1
            /\ UNCHANGED <<dpc, exit_status, attempts, get_vars, fs_vars, ncalls>>
       ELSE /\ CallGet(attempts, ip, modules[mi])
            /\ dpc' = "follow_get"
            /\ UNCHANGED <<mi, exit_status>>
    /\ UNCHANGED <<ip, pname, keep, follow, arch, status, modules, watch_vars>>

\* a variant that follows the modules of a dependent config in turn
FollowReturned_Expands ==
    /\ dpc = "follow_get" /\ gpc = "returned"
    /\ IF ret.status /\ g_pname = config
       THEN modules' = get_config_module_entries(files[ret.final_fname].text) /\ mi' = 1
       ELSE mi' = mi + 1 /\ UNCHANGED modules
    /\ dpc' = "follow" /\ gpc' = "none"
    /\ UNCHANGED <<ip, pname, keep, follow, arch, status, exit_status,
                   attempts, g_ip, g_pname, tmp, download, ctime, text, fixed_pname,
                   ret, stderr, fs_vars, ncalls, watch_vars>>

\* a dependent hajime_get returned: its result is dropped
FollowReturned ==
    /\ dpc = "follow_get" /\ gpc = "returned"
    /\ mi' = mi + 1 /\ dpc' = "follow" /\ gpc' = "none"
    /\ UNCHANGED <<ip, pname, keep, follow, arch, status, modules, exit_status,
                   attempts, g_ip, g_pname, tmp, download, ctime, text, fixed_pname,
                   ret, stderr, fs_vars, ncalls, watch_vars>>

\* nothing in do_one or main catches an exception of hajime_get: the
\* interpreter prints the traceback and the process ends with status 1
Uncaught ==
    /\ dpc \in {"get", "follow_get"} /\ gpc = "raised"
    /\ dpc' = "exited" /\ exit_status' = 1 /\ gpc' = "none"
    /\ UNCHANGED <<ip, pname, keep, follow, arch, status, modules, mi, attempts,
                   g_ip, g_pname, tmp, download, ctime, text, fixed_pname, ret, stderr,
                   fs_vars, ncalls, watch_vars>>

do_one == DoOne \/ OneReturned \/ FollowNext \/ FollowReturned \/ Uncaught

Next == hajime_get \/ do_one

Spec == Init /\ [][Next]_vars

(* ------------------------------------------------------------------ *)
(* do_watch                                                             *)
(* ------------------------------------------------------------------ *)

MaxWatchLines == 2
MaxHalfDays == 1
MaxWatchCalls == 2

\* time.sleep(30)
SleepSeconds == 30

HalfDay == 12 * 3600

\* the clock when the program starts: 2016-12-31 12:00:00 UTC
StartTime == 17166 * (2 * HalfDay) + HalfDay

mipseb == <<"m", "i", "p", "s", "e", "b">>
arm6 == <<"a", "r", "m", "6">>
arm7 == <<"a", "r", "m", "7">>

keywords == <<config, mipseb, mipsel, arm5, arm6, arm7>>

\* the keyword after keywords[k]: the for loop, and "while True" around it
NextKeyword(k) == IF k = Len(keywords) THEN 1 ELSE k + 1

\* the number n in at least w digits ('%02d' % n)
RECURSIVE ZeroPad(_, _)
ZeroPad(d, w) == IF Len(d) >= w THEN d ELSE ZeroPad(<<"0">> \o d, w)

\* time.gmtime(t): the year, month and day of the UTC date of second t
GmTime(t) ==
    LET z == (t \div (2 * HalfDay)) + 719468
        era == z \div 146097
        doe == z - era * 146097
        yoe == (doe - doe \div 1460 + doe \div 36524 - doe \div 146096) \div 365
        doy == doe - (365 * yoe + yoe \div 4 - yoe \div 100)
        mp == (5 * doy + 2) \div 153
        d == doy - (153 * mp + 2) \div 5 + 1
        m == IF mp < 10 THEN mp + 3 ELSE mp - 9
        y == yoe + era * 400 + (IF m <= 2 THEN 1 ELSE 0)
    IN [tm_year |-> y, tm_mon |-> m, tm_mday |-> d]

\* time.strftime('%Y-%m-%d.log', tup)
StrfTime(tup) ==
    ZeroPad(NatStr(tup.tm_year), 4) \o <<"-">> \o ZeroPad(NatStr(tup.tm_mon), 2)
        \o <<"-">> \o ZeroPad(NatStr(tup.tm_mday), 2) \o <<".", "l", "o", "g">>

\* os.path.join(a, b) for a relative b
PathJoin(a, b) ==
    IF a = <<>> \/ a[Len(a)] = "/" THEN a \o b ELSE a \o <<"/">> \o b

\* LOG_PATH of --watch: a directory of daily logs, and a log file
logs == <<"l", "o", "g", "s", "/">>
utp_log == <<"u", "t", "p", ".", "l", "o", "g">>
WatchPaths == {logs, utp_log}

\* os.path.isdir(path)
IsDir(path) == path = logs

\* PERIOD of --watch
Periods == {1, 60}

\* a variant that resolves the file of a directory once, at the first scan
ScanFile_Once(path, file, t) ==
    IF IsDir(path) /\ file = path THEN PathJoin(path, StrfTime(GmTime(t))) ELSE file

\* the file a scan tails, at clock t, where file is what the scan before
\* tailed
ScanFile(path, file, t) ==
    IF IsDir(path) THEN PathJoin(path, StrfTime(GmTime(t))) ELSE file

\* the lines "$6 $7" that awk prints: two peers, and a log line of fewer
\* than six fields
Peer1Line == <<"1", "0", ".", "0", ".", "0", ".", "1", " ", "1", "4", "5", "7">>
Peer2Line == <<"1", "0", ".", "0", ".", "0", ".", "2", " ", "1", "4", "5", "7">>
ShortLine == <<" ">>

\* output.splitlines() of the tailing command
TailOutputs == { <<>>, <<Peer1Line, Peer2Line>>, <<ShortLine>> }

\* subprocess.check_output(cmd, shell=True): CalledProcessError, or at most
\* n lines
TailResults(n) ==
    { [raised |-> TRUE, output |-> <<>>] }
    \cup { [raised |-> FALSE, output |-> o] : o \in {x \in TailOutputs : Len(x) <= n} }

\* str.split(): the words between runs of blanks
SplitWords(s) == SelectSeq(Split(s, " "), LAMBDA w : w # <<>>)

\* the sleep of the except branch and of "if not output"
ScanSleep(t) == IF t.raised \/ t.output = <<>> THEN SleepSeconds ELSE 0

\* a variant that sleeps for the period once the last keyword is done
PassSleep_Period(k, period) == IF k = Len(keywords) THEN period ELSE 0

\* what the while body sleeps after the for loop over the keywords: the
\* body is the for loop and nothing else
PassSleep(k, period) == 0

\* the command lines of a watch run
WatchArgs ==
    { [pname |-> pn, keep |-> k, follow |-> f[1], arch |-> f[2], watch_lines |-> n,
       watch_path |-> wp, watch_period |-> per] :
        pn \in {config}, k \in {TRUE}, f \in {<<FALSE, <<>>>>, <<TRUE, all>>},
        n \in {MaxWatchLines}, wp \in WatchPaths, per \in Periods }
    \cup
    { [pname |-> atk_arm5_, keep |-> TRUE, follow |-> FALSE, arch |-> <<>>,
       watch_lines |-> n, watch_path |-> wp, watch_period |-> per] :
        n \in {MaxWatchLines}, wp \in WatchPaths, per \in Periods }

InitWatch ==
    /\ \E a \in WatchArgs :
          /\ pname = a.pname /\ keep = a.keep /\ follow = a.follow /\ arch = a.arch
          /\ watch_lines = a.watch_lines /\ watch_path = a.watch_path
          /\ watch_period = a.watch_period
    /\ ip = <<>> /\ dpc = "watch" /\ status = <<>> /\ modules = <<>> /\ mi = 0
    /\ exit_status = -1 /\ attempts = <<>>
    /\ gpc = "none" /\ g_ip = <<>> /\ g_pname = <<>> /\ tmp = 0
    /\ download = <<>> /\ ctime = <<>> /\ text = <<>> /\ fixed_pname = <<>>
    /\ ret = NoRet /\ stderr = ""
    /\ files = NoFiles /\ tmp_pnames = {} /\ tmp_fnames = {}
    /\ ncalls = 0
    /\ wpc = "scan" /\ ki = 1 /\ watch_file = watch_path /\ now = StartTime
    /\ tail = NoTail /\ li = 0 /\ nap = 0

\* the clock after a scan: the tailing command and the sleep take their
\* time, up to half a day
Later(t) == {u \in {t, t + HalfDay} : u <= StartTime + MaxHalfDays * HalfDay}

\* one turn of "for keyword in keywords", to the result of the tailing
\* command: the file is resolved, for a directory from the clock, and the
\* command runs
WatchTail ==
    /\ wpc = "scan"
    /\ watch_file' = ScanFile(watch_path, watch_file, now)
    /\ \E r \in TailResults(watch_lines) : tail' = r
    /\ wpc' = "tailed" /\ nap' = 0
    /\ attempts' = <<>>
    /\ UNCHANGED <<one_vars, get_vars, fs_vars, ncalls, ki, watch_lines, watch_path,
                   watch_period, now, li>>

\* a variant that lets the error of the tailing command end the program
WatchTailed_Dies(period) ==
    /\ wpc = "tailed"
    /\ IF tail.raised
       THEN /\ wpc' = "crashed" /\ exit_status' = 1
            /\ UNCHANGED <<ki, li, nap>>
       ELSE IF tail.output = <<>>
       THEN /\ nap' = ScanSleep(tail) + PassSleep(ki, period)
            /\ ki' = NextKeyword(ki) /\ wpc' = "scan" /\ li' = 0
            /\ UNCHANGED exit_status
       ELSE /\ wpc' = "lines" /\ li' = 1 /\ nap' = 0
            /\ UNCHANGED <<ki, exit_status>>
    /\ \E u \in Later(now) : now' = u
    /\ UNCHANGED <<ip, pname, keep, follow, arch, dpc, status, modules, mi,
                   attempts, get_vars, fs_vars, ncalls, watch_lines, watch_path,
                   watch_period, watch_file, tail>>

\* after the tailing command: on its error, and on no output, the sleep, and
\* the next keyword; else the loop over the lines
WatchTailed(period) ==
    /\ wpc = "tailed"
    /\ IF tail.raised \/ tail.output = <<>>
       THEN /\ nap' = ScanSleep(tail) + PassSleep(ki, period)
            /\ ki' = NextKeyword(ki) /\ wpc' = "scan" /\ li' = 0
       ELSE /\ wpc' = "lines" /\ li' = 1 /\ nap' = 0
            /\ UNCHANGED ki
    /\ \E u \in Later(now) : now' = u
    /\ UNCHANGED <<one_vars, attempts, get_vars, fs_vars, ncalls, watch_lines,
                   watch_path, watch_period, watch_file, tail>>

\* one turn of "for line in output.splitlines()", to the call of hajime_get;
\* "ip, port = line.split()" raises ValueError unless the line has two
\* words; after the last line, the next keyword
WatchLine(period) ==
    /\ wpc = "lines" /\ gpc = "none"
    /\ IF li > Len(tail.output)
       THEN /\ wpc' = "scan" /\ ki' = NextKeyword(ki) /\ li' = 0
            /\ nap' = PassSleep(ki, period)
            /\ UNCHANGED <<ip, exit_status, attempts, get_vars, fs_vars, ncalls>>
       ELSE LET words == SplitWords(Strip(tail.output[li]))
            IN IF Len(words) # 2
               THEN /\ wpc' = "crashed" /\ exit_status' = 1 /\ nap' = 0
                    /\ UNCHANGED <<ip, ki, li, attempts, get_vars, fs_vars, ncalls>>
               ELSE /\ ncalls < MaxWatchCalls
                    /\ ip' = words
                    /\ CallGet(attempts, words, pname)
                    /\ wpc' = "get" /\ nap' = 0
                    /\ UNCHANGED <<ki, li, exit_status, files, tmp_fnames>>
    /\ UNCHANGED <<pname, keep, follow, arch, dpc, status, modules, mi, watch_lines,
                   watch_path, watch_period, watch_file, now, tail>>

\* the frame of a hajime_get call that has returned is gone
Returned ==
    /\ gpc' = "none" /\ g_ip' = <<>> /\ g_pname' = <<>> /\ tmp' = 0
    /\ download' = <<>> /\ ctime' = <<>> /\ text' = <<>> /\ fixed_pname' = <<>>
    /\ ret' = NoRet

\* the hajime_get of a line returned: on failure the next line, for a config
\* with follow set the module list, else the next line
WatchReturned ==
    /\ wpc = "get" /\ gpc = "returned"
    /\ status' = <<ret.status>>
    /\ IF ~ret.status
       THEN li' = li + 1 /\ wpc' = "lines" /\ UNCHANGED <<modules, mi>>
       ELSE IF pname = config /\ follow
       THEN /\ modules' = get_config_module_entries(files[ret.final_fname].text)
            /\ mi' = 1 /\ wpc' = "follow" /\ UNCHANGED li
       ELSE li' = li + 1 /\ wpc' = "lines" /\ UNCHANGED <<modules, mi>>
    /\ Returned
    /\ UNCHANGED <<ip, pname, keep, follow, arch, dpc, exit_status, attempts, stderr,
                   fs_vars, ncalls, ki, watch_lines, watch_path, watch_period,
                   watch_file, now, tail, nap>>

\* one turn of "for module in modules" of do_watch; after the last entry the
\* next line
WatchFollowNext ==
    /\ wpc = "follow" /\ gpc = "none"
    /\ IF mi > Len(modules)
       THEN /\ li' = li + 1 /\ wpc' = "lines"
            /\ UNCHANGED <<mi, attempts, get_vars, fs_vars, ncalls>>
       ELSE IF Skipped(modules[mi])
       THEN /\ mi' = mi + 1
            /\ UNCHANGED <<wpc, li, attempts, get_vars, fs_vars, ncalls>>
       ELSE /\ ncalls < MaxWatchCalls
            /\ CallGet(attempts, ip, modules[mi])
            /\ wpc' = "follow_get"
            /\ UNCHANGED <<mi, li, files, tmp_fnames>>
    /\ UNCHANGED <<ip, pname, keep, follow, arch, dpc, status, modules, exit_status,
                   ki, watch_lines, watch_path, watch_period, watch_file, now, tail,
                   nap>>

\* a dependent hajime_get of do_watch returned: its result is dropped
WatchFollowReturned ==
    /\ wpc = "follow_get" /\ gpc = "returned"
    /\ mi' = mi + 1 /\ wpc' = "follow"
    /\ Returned
    /\ UNCHANGED <<ip, pname, keep, follow, arch, dpc, status, modules, exit_status,
                   attempts, stderr, fs_vars, ncalls, ki, watch_lines, watch_path,
                   watch_period, watch_file, now, tail, li, nap>>

\* nothing in do_watch or main catches an exception of hajime_get: the
\* process ends with status 1
WatchUncaught ==
    /\ wpc \in {"get", "follow_get"} /\ gpc = "raised"
    /\ wpc' = "crashed" /\ exit_status' = 1
    /\ UNCHANGED <<ip, pname, keep, follow, arch, dpc, status, modules, mi, attempts,
                   get_vars, fs_vars, ncalls, ki, watch_lines, watch_path,
                   watch_period, watch_file, now, tail, li, nap>>

\* do_watch with watch_period = period
do_watch(period) ==
    \/ WatchTail
    \/ WatchTailed(period)
    \/ WatchLine(period)
    \/ WatchReturned
    \/ WatchFollowNext
    \/ WatchFollowReturned
    \/ WatchUncaught

NextWatch ==
    \/ hajime_get
    \/ WatchTail
    \/ WatchTailed(watch_period)
    \/ WatchLine(watch_period)
    \/ WatchReturned
    \/ WatchFollowNext
    \/ WatchFollowReturned
    \/ WatchUncaught

SpecWatch == InitWatch /\ [][NextWatch]_vars

(* ------------------------------------------------------------------ *)
(* The naming rule on its own: hajime_get from the point where the       *)
(* download and the parse have succeeded, for every name and time of a   *)
(* bounded set                                                          *)
(* ------------------------------------------------------------------ *)

NameAlphabet == {"a", ".", "0", "1"}

\* names with a sign or white space in the last component, a long name, and
\* the names of the one-shot runs
ExtraNames ==
    ReqNames \cup
    { <<"a", ".", "-", "1">>, <<"a", ".", "+", "1">>, <<"a", ".", " ", "1", " ">>,
      <<".", "i", ".", "a", ".", "1", "1">>, config \o <<".", "1">>,
      atk \o <<".">> \o mipsel \o <<".", "9", "9", "9">> }

NameDomain ==
    UNION { [1..n -> NameAlphabet] : n \in 0..MaxNameLen } \cup ExtraNames

\* the creation times that pass "if not ctime"
TimeDomain == (-1..MaxTime) \ {0}

InitName ==
    /\ ip \in Peers /\ pname \in NameDomain /\ keep \in BOOLEAN
    /\ follow = FALSE /\ arch = <<>>
    /\ dpc = "get" /\ status = <<>> /\ modules = <<>> /\ mi = 0
    /\ exit_status = -1 /\ attempts = << <<ip, pname>> >>
    /\ gpc = "fix" /\ g_ip = ip /\ g_pname = pname /\ tmp = 1
    /\ download = <<TRUE, 1>>
    /\ ctime \in { <<t>> : t \in TimeDomain } /\ text = ConfigTexts[1]
    /\ fixed_pname = <<>> /\ ret = NoRet /\ stderr = ""
    /\ files = NoFiles /\ tmp_pnames = {1} /\ tmp_fnames = {1}
    /\ ncalls = 1
    /\ WatchOff

NextName == FixName \/ PlacePname \/ PlaceFname

SpecName == InitName /\ [][NextName]_vars

(* ------------------------------------------------------------------ *)
(* Names taken apart without split and join, for the properties         *)
(* ------------------------------------------------------------------ *)

HasDot(s) == \E i \in 1..Len(s) : s[i] = "."

LastDot(s) ==
    CHOOSE i \in 1..Len(s) : s[i] = "." /\ \A j \in (i + 1)..Len(s) : s[j] # "."

\* p and a of a name p.a
StemOf(s) == SubSeq(s, 1, LastDot(s) - 1)
LastOf(s) == SubSeq(s, LastDot(s) + 1, Len(s))

\* a name p.a whose last component is an integer
Timestamped(s) == s # config /\ HasDot(s) /\ ~IntRaises(LastOf(s))

IsHiddenName(s) == s # <<>> /\ s[1] = "."

Marker(s) == IF IsHiddenName(s) THEN <<"_", "_">> ELSE <<>>

\* the temporary files of the current call are gone
NoTempLeft == tmp \notin tmp_pnames /\ tmp \notin tmp_fnames

\* the files of the output directory that the current call placed
PlacedByCall == {path \in DOMAIN files : files[path].call = tmp}

(* ------------------------------------------------------------------ *)
(* Properties                                                           *)
(* ------------------------------------------------------------------ *)

\* C1: a hajime_get call that returns the failure status (could not download,
\* could not parse) leaves neither its temporary payload nor its temporary
\* decoded file behind.
Thm_C1_FailedGetLeavesNoTemp ==
    (gpc = "returned" /\ ~ret.status) => NoTempLeft

\* a call returned failure after the parse collaborator had written the
\* decoded file
Wit_C1_ParseFailureReturned ==
    /\ gpc = "returned" /\ ~ret.status /\ stderr = "could not parse"
    /\ NoTempLeft

\* C2: on every exit of hajime_get, a return or an exception, no temporary
\* file of the call remains.
CE_C2_NoTempOnAnyExit ==
    gpc \in {"returned", "raised"} => NoTempLeft

\* C3: with keep set, a placement step that finds its final path in the
\* output directory leaves every file of the directory as it was and removes
\* its temporary file; for the payload and for the decoded file alike.
Thm_C3_KeepLeavesExisting ==
    [][ /\ (keep /\ gpc = "place_pname" /\ final_pname \in DOMAIN files)
             => (files' = files /\ tmp \notin tmp_pnames')
        /\ (keep /\ gpc = "place_fname" /\ final_fname \in DOMAIN files)
             => (files' = files /\ tmp \notin tmp_fnames') ]_vars

\* a keep-mode call returned success over files an earlier call had placed
Wit_C3_KeptEarlierFiles ==
    /\ gpc = "returned" /\ ret.status /\ keep
    /\ ret.final_pname \in DOMAIN files /\ files[ret.final_pname].call < tmp
    /\ ret.final_fname \in DOMAIN files /\ files[ret.final_fname].call < tmp
    /\ NoTempLeft

\* the timestamp a path of the output directory carries: the last component
\* of the name, the .file suffix set aside
NameOfPath(path) ==
    IF Len(path) >= Len(FileSuffix)
       /\ SubSeq(path, Len(path) - Len(FileSuffix) + 1, Len(path)) = FileSuffix
    THEN SubSeq(path, 1, Len(path) - Len(FileSuffix))
    ELSE path

CarriesTime(path, t) ==
    LET n == NameOfPath(path)
    IN HasDot(n) /\ ~IntRaises(LastOf(n)) /\ IntOf(LastOf(n)) = t

\* a successful call for a name p.T whose payload has another creation time
ReturnedOtherTime ==
    /\ gpc = "returned" /\ ret.status
    /\ Timestamped(g_pname) /\ IntOf(LastOf(g_pname)) # ctime[1]

\* C4 as stated: a successful retrieval of p.T whose payload has creation
\* time T' # T ends with the files p.T' and p.T'.file in the output directory
\* and has created no file that carries T, and no temporary file is left.
CE_C4_FinalNamedStemTime ==
    ReturnedOtherTime =>
        /\ ret.final_pname = StemOf(g_pname) \o <<".">> \o Str(ctime[1])
        /\ ret.final_fname = ret.final_pname \o FileSuffix
        /\ {ret.final_pname, ret.final_fname} \subseteq DOMAIN files
        /\ \A path \in PlacedByCall : ~CarriesTime(path, IntOf(LastOf(g_pname)))
        /\ NoTempLeft

\* C4, amended: the final files are named m p.T' and m p.T'.file, where m is
\* "__" for a hidden-style name (one that begins with a dot) and empty
\* otherwise; the rest as stated.
Thm_C4_FinalNamedMarkerStemTime ==
    ReturnedOtherTime =>
        /\ ret.final_pname = Marker(g_pname) \o StemOf(g_pname) \o <<".">> \o Str(ctime[1])
        /\ ret.final_fname = ret.final_pname \o FileSuffix
        /\ {ret.final_pname, ret.final_fname} \subseteq DOMAIN files
        /\ PlacedByCall \subseteq {ret.final_pname, ret.final_fname}
        /\ \A path \in PlacedByCall : ~CarriesTime(path, IntOf(LastOf(g_pname)))
        /\ NoTempLeft

\* atk.arm5.1 was requested, the payload's creation time is 2, and the call
\* placed atk.arm5.2 and atk.arm5.2.file
Wit_C4_RenamedToTrueTime ==
    /\ ReturnedOtherTime /\ g_pname = atk_arm5_1 /\ ctime = <<2>>
    /\ PlacedByCall = {atk \o <<".">> \o arm5 \o <<".", "2">>,
                       atk \o <<".">> \o arm5 \o <<".", "2">> \o FileSuffix}

\* fix_payload_name has returned for a name p.a, a an integer
Named == gpc = "place_pname" /\ Timestamped(g_pname)

\* C5 as stated: for a name p.a with a = T and a creation time T' # T,
\* fix_payload_name gives p + "." + T'.
CE_C5_OtherTimeGivesStemTime ==
    (gpc # "fix" /\ Timestamped(g_pname) /\ IntOf(LastOf(g_pname)) # ctime[1])
        => (gpc # "raised"
            /\ fixed_pname = StemOf(g_pname) \o <<".">> \o Str(ctime[1]))

\* C5, amended: it gives m + p + "." + T', where m is "__" when the name
\* begins with a dot and empty otherwise.
Thm_C5_OtherTimeGivesMarkerStemTime ==
    (gpc # "fix" /\ Timestamped(g_pname) /\ IntOf(LastOf(g_pname)) # ctime[1])
        => (gpc # "raised"
            /\ fixed_pname = Marker(g_pname) \o StemOf(g_pname) \o <<".">> \o Str(ctime[1]))

\* a name that does not begin with a dot was renamed to another time
Wit_C5_PlainNameRenamed ==
    /\ Named /\ ~IsHiddenName(g_pname) /\ StemOf(g_pname) # <<>>
    /\ IntOf(LastOf(g_pname)) # ctime[1]
    /\ fixed_pname = StemOf(g_pname) \o <<".">> \o Str(ctime[1])
    /\ fixed_pname # g_pname

\* C6 as stated: for a name p.a with a = T and the creation time T,
\* fix_payload_name gives the requested name unchanged.
CE_C6_SameTimeGivesName ==
    (gpc # "fix" /\ Timestamped(g_pname) /\ IntOf(LastOf(g_pname)) = ctime[1])
        => (gpc # "raised" /\ fixed_pname = g_pname)

\* C6, amended: it gives the requested name unchanged when the name does not
\* begin with a dot, and "__" followed by the requested name when it does.
Thm_C6_SameTimeGivesMarkerName ==
    (gpc # "fix" /\ Timestamped(g_pname) /\ IntOf(LastOf(g_pname)) = ctime[1])
        => (gpc # "raised" /\ fixed_pname = Marker(g_pname) \o g_pname)

\* a name whose last component is the creation time written with a leading
\* zero was left as requested
Wit_C6_SameTimeKept ==
    /\ Named /\ ~IsHiddenName(g_pname)
    /\ IntOf(LastOf(g_pname)) = ctime[1] /\ LastOf(g_pname) # Str(ctime[1])
    /\ fixed_pname = g_pname

Thm_C8_ConfigGetsTime ==
    (gpc # "fix" /\ g_pname = config)
        => /\ gpc # "raised"
           /\ fixed_pname = config \o <<".">> \o Str(ctime[1])
           /\ gpc = "returned" =>
                 /\ ret.status
                 /\ ret.final_pname = config \o <<".">> \o Str(ctime[1])
                 /\ ret.final_fname = config \o <<".">> \o Str(ctime[1]) \o FileSuffix
                 /\ {ret.final_pname, ret.final_fname} \subseteq DOMAIN files

\* config was stored under a two-digit creation time
Wit_C8_ConfigStored ==
    /\ gpc = "returned" /\ g_pname = config /\ ctime[1] >= 10 /\ ret.status
    /\ ret.final_pname = config \o <<".">> \o Str(ctime[1])
    /\ ret.final_pname \in DOMAIN files

\* the entries of the module list that pass the --follow filter
RECURSIVE Matching(_, _)
Matching(mods, a) ==
    IF mods = <<>> THEN <<>>
    ELSE (IF a = all \/ Contains(Head(mods), a) THEN <<Head(mods)>> ELSE <<>>)
         \o Matching(Tail(mods), a)

\* C9: a one-shot run ends with status 1 and without any follow retrieval
\* when the top-level retrieval did not succeed, and with status 0 when it
\* succeeded, whatever became of the dependent retrievals.
CE_C9_ExitStatusOfTopLevel ==
    dpc = "exited" =>
        IF status = <<TRUE>>
        THEN exit_status = 0
        ELSE exit_status = 1 /\ Len(attempts) = 1

\* C10: a follow run that has ended has attempted, after config, exactly the
\* matching module entries, in list order and against the same peer.
CE_C10_AllMatchingAttempted ==
    (dpc = "exited" /\ status = <<TRUE>> /\ pname = config /\ follow)
        => attempts =
             << <<ip, config>> >> \o
             [i \in 1..Len(Matching(modules, arch)) |-> <<ip, Matching(modules, arch)[i]>>]


(* ------------------------------------------------------------------ *)
(* The reading of a configuration file on its own: do_one at the point  *)
(* where the retrieval of config has succeeded, over the texts of up to  *)
(* MaxLines lines                                                        *)
(* ------------------------------------------------------------------ *)

MaxLines == 3

\* the lines of a decoded configuration file: the header in two spellings,
\* another section's header, an empty line, a line of blanks, an entry and an
\* entry with blanks around it
LineDomain ==
    { <<"[", "m", "o", "d", "u", "l", "e", "s", "]">>,
      <<"[", "M", "o", "d", "u", "l", "e", "s", "]">>,
      <<"[", "p", "e", "e", "r", "s", "]">>,
      <<>>,
      <<" ">>,
      atk_arm5_1,
      <<" ">> \o i_mipsel_1 \o <<" ">> }

\* f.readlines()
TextDomain == UNION { [1..n -> LineDomain] : n \in 0..MaxLines }

InitModules ==
    /\ ip \in Peers /\ pname = config /\ keep = FALSE /\ follow = TRUE /\ arch = all
    /\ dpc = "get" /\ status = <<>> /\ modules = <<>> /\ mi = 0
    /\ exit_status = -1 /\ attempts = << <<ip, pname>> >>
    /\ gpc = "returned" /\ g_ip = ip /\ g_pname = pname /\ tmp = 1
    /\ download = <<TRUE, 1>> /\ ctime = <<1>> /\ text \in TextDomain
    /\ fixed_pname = fix_payload_name(config, 1)
    /\ ret = [status |-> TRUE, final_pname |-> final_pname, final_fname |-> final_fname]
    /\ stderr = ""
    /\ files = Put(Put(NoFiles, final_pname, RawData), final_fname, DecodedData)
    /\ tmp_pnames = {} /\ tmp_fnames = {}
    /\ ncalls = 1
    /\ WatchOff

NextModules == OneReturned

SpecModules == InitModules /\ [][NextModules]_vars

\* a line of blanks only, or of nothing
IsBlank(line) == \A i \in 1..Len(line) : line[i] = " "

\* the line without the blanks around it, taken without strip
Trimmed(line) ==
    LET ix == {i \in 1..Len(line) : line[i] # " "}
        lo == CHOOSE i \in ix : \A j \in ix : i <= j
        hi == CHOOSE i \in ix : \A j \in ix : j <= i
    IN IF ix = {} THEN <<>> ELSE SubSeq(line, lo, hi)

\* a bracketed section header
IsHeader(line) ==
    LET l == Trimmed(line) IN Len(l) >= 2 /\ l[1] = "[" /\ l[Len(l)] = "]"

\* the header of the modules section, in any case
IsModulesHeader(line) ==
    LET l == Trimmed(line)
    IN /\ Len(l) = Len(ModulesHeader)
       /\ \A i \in 1..Len(l) : LowerChar(l[i]) = ModulesHeader[i]

\* line i lies inside a modules section: the nearest header above it is a
\* modules header
InModulesSection(lines, i) ==
    \E h \in 1..(i - 1) :
        /\ IsModulesHeader(lines[h])
        /\ \A j \in (h + 1)..(i - 1) : ~IsHeader(lines[j])

\* the non-blank lines inside a modules section that are no headers, in the
\* order of the file
SectionEntries(lines) ==
    LET idx == SelectSeq([i \in 1..Len(lines) |-> i],
                         LAMBDA i : /\ InModulesSection(lines, i)
                                    /\ ~IsBlank(lines[i])
                                    /\ ~IsHeader(lines[i]))
    IN [k \in 1..Len(idx) |-> Trimmed(lines[idx[k]])]

\* C11: the module list read from a configuration file is exactly the
\* non-blank lines inside a section opened by a [modules] header (in any
\* case) that are no bracketed section headers, in file order; the section
\* ends at the next bracketed header or at the end of the file; a file
\* without a modules section gives the empty list.
CE_C11_EntriesAreNonBlankSectionLines ==
    dpc = "follow" => modules = SectionEntries(text)


\* the download of the current call failed: no success reported, or an empty
\* temporary file
DownloadFailure == download # <<>> /\ (download[1] = FALSE \/ download[2] = 0)

\* C15: within one hajime_get call the steps are ordered download, parse,
\* placement: parsing starts only from a download that reported success and
\* left a non-empty file, naming only after parsing and placement only after
\* naming; no file is put at or removed from a final path unless the parse
\* gave a timestamp; after a failed download the decoded temporary file is
\* neither created nor touched.
Thm_C15_DownloadParsePlace ==
    [][ /\ (gpc' = "parse" /\ gpc # "parse") =>
              gpc = "getfile" /\ download'[1] = TRUE /\ download'[2] > 0
        /\ (gpc' = "fix" /\ gpc # "fix") => gpc = "parse" /\ ~DownloadFailure
        /\ (gpc' = "place_pname" /\ gpc # "place_pname") => gpc = "fix"
        /\ (gpc' = "place_fname" /\ gpc # "place_fname") => gpc = "place_pname"
        /\ files' # files =>
              /\ gpc \in {"place_pname", "place_fname"}
              /\ ctime # <<>> /\ ctime' = ctime
              /\ ~DownloadFailure
        /\ DownloadFailure => tmp \notin tmp_fnames /\ tmp_fnames' = tmp_fnames
      ]_vars

\* a download that reported success and left an empty file has returned, in
\* a directory where an earlier call placed its files
Wit_C15_EmptyDownloadReturned ==
    /\ gpc = "returned" /\ download = <<TRUE, 0>>
    /\ ctime = <<>> /\ ~ret.status
    /\ files # NoFiles

\* C16: after a successful non-empty download hajime_get reports a parse
\* failure exactly when the parser gave no creation timestamp: for every
\* integer timestamp the parser returns, the call goes on to naming and
\* placement and returns success.
CE_C16_ParseFailureIffNoTimestamp ==
    (gpc \in {"fix", "place_pname", "place_fname", "returned", "raised"} /\ ~DownloadFailure)
        => /\ (ctime = <<>>) <=> (gpc = "returned" /\ ~ret.status)
           /\ ctime = <<>> => stderr = "could not parse"
           /\ ctime # <<>> => gpc # "raised"


\* C17: with keep unset a successful hajime_get moves both temporary files
\* onto their final paths whether or not those paths exist: at the return
\* both final paths hold what this call downloaded and decoded, the returned
\* decoded path is the returned payload path with ".file" appended, and no
\* temporary file of the call is left.
Thm_C17_NoKeepLastWriterWins ==
    (gpc = "returned" /\ ret.status /\ ~keep) =>
        /\ ret.final_fname = ret.final_pname \o FileSuffix
        /\ ret.final_pname \in DOMAIN files
        /\ ret.final_fname \in DOMAIN files
        /\ files[ret.final_pname] = [call |-> tmp, kind |-> "payload", text |-> text]
        /\ files[ret.final_fname] = [call |-> tmp, kind |-> "file", text |-> text]
        /\ tmp \notin tmp_pnames \cup tmp_fnames

\* the second retrieval of a first run has returned, for the same name as the
\* first (a config that lists config), and the directory holds two files
\* only: the second retrieval replaced the files of the first
Wit_C17_ReplacedEarlierFiles ==
    /\ gpc = "returned" /\ ret.status /\ ~keep
    /\ dpc = "follow_get" /\ ncalls = 2 /\ g_pname = pname
    /\ Cardinality(DOMAIN files) = 2
    /\ files[ret.final_pname].call = 2


\* C19: from an empty output directory and after any hajime_get calls with
\* any mix of keep values and outcomes, outside the two placement steps of a
\* call, for every final name N the payload file N exists exactly when the
\* decoded file N.file exists, and the two were placed by the same call.
Thm_C19_PayloadAndDecodedPaired ==
    gpc # "place_fname" =>
        \A path \in DOMAIN files :
            LET N == NameOfPath(path)
            IN /\ N \in DOMAIN files /\ files[N].kind = "payload"
               /\ N \o FileSuffix \in DOMAIN files
               /\ files[N \o FileSuffix].kind = "file"
               /\ files[N].call = files[N \o FileSuffix].call

\* a call with keep set has returned after finding its final paths taken by
\* an earlier call, in a directory that holds two pairs of files
Wit_C19_KeptPairBesideAnother ==
    /\ gpc = "returned" /\ ret.status /\ keep
    /\ stderr = "already exists; not overwriting"
    /\ files[ret.final_pname].call < tmp
    /\ Cardinality(DOMAIN files) = 4


\* the turns of the follow loop that are left, counted in steps of do_one
FollowRank ==
    2 * (Len(modules) + 1 - mi) + (IF dpc = "follow" THEN 1 ELSE 0)

InFollow == dpc \in {"follow", "follow_get"}

\* C20: follow expansion is one level deep and ends: the module list is read
\* once, from the top-level config, and no return of a dependent retrieval
\* changes it, a dependent named config included; every step of the loop
\* takes it nearer to its end; so a run of do_one makes at most one
\* retrieval more than the list has entries, and then exits.
Thm_C20_FollowOneLevel ==
    [][ /\ (InFollow /\ InFollow') =>
              /\ modules' = modules
              /\ (dpc' # dpc \/ mi' # mi) => FollowRank' < FollowRank
        /\ InFollow' =>
              /\ mi' \in 1..(Len(modules') + 1)
              /\ FollowRank' >= 0
              /\ Len(attempts') <= (IF dpc' = "follow" THEN mi' ELSE mi' + 1)
        /\ dpc' # "idle" => Len(attempts') <= 1 + Len(modules')
        /\ (InFollow /\ ~InFollow') => dpc' = "exited"
      ]_vars

\* a run that followed a config listing config itself has exited with
\* status 0, after one retrieval for the config and one for each entry
Wit_C20_ConfigEntryFollowedOnce ==
    /\ dpc = "exited" /\ exit_status = 0 /\ follow
    /\ Len(modules) >= 1
    /\ \E i \in 1..Len(modules) : modules[i] = config
    /\ Len(attempts) = 1 + Len(modules)
    /\ \A i \in 1..Len(modules) : attempts[i + 1] = <<ip, modules[i]>>


CE_C13_RetrievalNeverStopsWatch ==
    /\ ~(wpc = "crashed" /\ gpc = "raised")
    /\ (wpc = "scan" /\ ~tail.raised) =>
          \A i \in 1..Len(tail.output) :
              \E j \in 1..Len(attempts) :
                  attempts[j] = <<SplitWords(tail.output[i]), pname>>

\* the name of the daily log of the days the clock of the model reaches
DayLog(day) ==
    CASE day = 17166 -> <<"2", "0", "1", "6", "-", "1", "2", "-", "3", "1", ".", "l", "o", "g">>
      [] day = 17167 -> <<"2", "0", "1", "7", "-", "0", "1", "-", "0", "1", ".", "l", "o", "g">>

\* the day of second t
DayOf(t) == t \div 86400

\* C14: for a directory every scan tails the file of the directory named
\* after the UTC date of the clock at that scan (yyyy-mm-dd.log), so two
\* scans in a row on either side of midnight UTC tail different files; for
\* anything else every scan tails the configured path.
Thm_C14_ScanTailsFileOfTheDay ==
    [][ (wpc = "scan" /\ wpc' = "tailed") =>
            IF watch_path = logs
            THEN /\ watch_file' = <<"l", "o", "g", "s", "/">> \o DayLog(DayOf(now))
                 /\ \A d \in {17166, 17167} :
                        (watch_file = watch_path \o DayLog(d) /\ d # DayOf(now))
                            => watch_file' # watch_file
            ELSE watch_file' = watch_path /\ watch_path = utp_log
      ]_vars

\* a watch of a directory that started on 2016-12-31 has tailed the file of
\* 2017-01-01
Wit_C14_TailedNextDaysFile ==
    /\ wpc = "tailed" /\ watch_path = logs
    /\ DayOf(now) = 17167
    /\ watch_file = <<"l", "o", "g", "s", "/", "2", "0", "1", "7", "-", "0", "1", "-", "0",
                      "1", ".", "l", "o", "g">>

====
